---- MODULE Spec2Model ----
(***************************************************************************)
(* Model of the schedule resolver of lot-radio-schedule (src/calendar.js): *)
(* fetchShows and its helpers.  Instants are whole seconds since the Unix  *)
(* epoch (a JS Date's time value, without its millisecond part).  A date   *)
(* key "YYYY-MM-DD" is the tuple <<y, m, d>> of its three number fields,   *)
(* an ISO instant string the tuple of its six UTC fields, a summary a      *)
(* sequence of characters.  The last part models the Slack bot and the     *)
(* generator processes (generate.js) it starts.                            *)
(***************************************************************************)
EXTENDS Integers, Sequences, FiniteSets, TLC

VARIABLES
    dateArg,      \* the optional token handed to fetchShows (<<>> when absent)
    now,          \* the wall clock read by new Date()
    serverTZ,     \* the time zone of the process (what Date's local methods use)
    pc,           \* position of fetchShows: start, fetch, loop, done, failed;
                  \* then of its caller, main of generate.js: exit, render
    targetDate,   \* the resolved date key
    data,         \* the parsed feed, once fetched
    rruleAfter,   \* lower end of the expansion window
    rruleBefore,  \* upper end of the expansion window
    idx,          \* index of the next event of the for loop
    shows,        \* the shows array (with _sort and provenance)
    seen,         \* the dedupe set
    pushed,       \* history: shows in the order they were pushed
    fetched,      \* history: ical.async.fromURL has been called
    result,       \* the returned Schedule, or the error thrown
    run,          \* the generator runs: one record per run
    tmpPsd,       \* output/_modified.psd: 0 when absent, else the run that wrote it
    png           \* output/TEST_<day>.png per day name: 0 or the run whose image it holds

fetchVars == <<dateArg, now, serverTZ, pc, targetDate, data, rruleAfter,
               rruleBefore, idx, shows, seen, pushed, fetched, result>>

botVars == <<run, tmpPsd, png>>

vars == <<fetchVars, botVars>>

----------------------------------------------------------------------------
(* Calendar arithmetic: what Date and Intl.DateTimeFormat compute.         *)

HourSecs == 60 * 60
MinuteSecs == HourSecs \div 60
DaySecs == 24 * HourSecs

\* Days since 1970-01-01 of the proleptic Gregorian date y-m-d.
DaysFromCivil(y, m, d) ==
    LET yy  == IF m <= 2 THEN y - 1 ELSE y
        era == yy \div 400
        yoe == yy - era * 400
        mp  == IF m > 2 THEN m - 3 ELSE m + 9
        doy == (153 * mp + 2) \div 5 + d - 1
        doe == yoe * 365 + yoe \div 4 - yoe \div 100 + doy
    IN  era * 146097 + doe - 719468

\* The date <<y, m, d>> of a day number, by era (400 years), day of era,
\* year of era, day of year and March-based month.
CivilYMD(y, m, d) == <<y + (IF m <= 2 THEN 1 ELSE 0), m, d>>

CivilFromMp(era, yoe, doy, mp) ==
    CivilYMD(yoe + era * 400, IF mp < 10 THEN mp + 3 ELSE mp - 9,
             doy - (153 * mp + 2) \div 5 + 1)

CivilFromDoy(era, yoe, doy) == CivilFromMp(era, yoe, doy, (5 * doy + 2) \div 153)

CivilFromYoe(era, doe, yoe) ==
    CivilFromDoy(era, yoe, doe - (365 * yoe + yoe \div 4 - yoe \div 100))

CivilFromDoe(era, doe) ==
    CivilFromYoe(era, doe, (doe - doe \div 1460 + doe \div 36524 - doe \div 146096) \div 365)

CivilFromEra(zz, era) == CivilFromDoe(era, zz - era * 146097)

CivilFromDays(z) == CivilFromEra(z + 719468, (z + 719468) \div 146097)

\* 0 = Sunday .. 6 = Saturday; 1970-01-01 was a Thursday.
WeekdayOfDays(z) == (z + 4) % 7

IsLeap(y) == (y % 4 = 0 /\ y % 100 # 0) \/ y % 400 = 0

DaysInMonth(y, m) ==
    IF m = 2 THEN (IF IsLeap(y) THEN 29 ELSE 28)
    ELSE IF m \in {4, 6, 9, 11} THEN 30 ELSE 31

\* First day number on or after z that is a Sunday.
SundayOnOrAfter(z) == z + ((7 - WeekdayOfDays(z)) % 7)

\* America/New_York since 2007: daylight time from the second Sunday of
\* March, 2:00 EST (07:00 UTC), to the first Sunday of November, 2:00 EDT
\* (06:00 UTC).
DSTStart(y) == (SundayOnOrAfter(DaysFromCivil(y, 3, 1)) + 7) * DaySecs + 7 * HourSecs
DSTEnd(y) == SundayOnOrAfter(DaysFromCivil(y, 11, 1)) * DaySecs + 6 * HourSecs

InDST(t, y) == DSTStart(y) <= t /\ t < DSTEnd(y)

IsEDT(t) == InDST(t, CivilFromDays(t \div DaySecs)[1])

TZ == "America/New_York"

Zones == {"America/New_York", "UTC", "Asia/Tokyo"}

\* Seconds to add to a UTC instant to get the wall clock of a zone.
ZoneOffset(zone, t) ==
    CASE zone = "America/New_York" -> (IF IsEDT(t) THEN 0 - 4 * HourSecs ELSE 0 - 5 * HourSecs)
      [] zone = "UTC" -> 0
      [] zone = "Asia/Tokyo" -> 9 * HourSecs

\* The instant of a wall-clock time of a zone (ECMAScript's UTC(t)): an
\* ambiguous time is the earlier instant, a skipped time is read with the
\* offset in force before the transition.
LocalToUTC(zone, local) ==
    IF zone = "America/New_York"
    THEN (IF IsEDT(local + 4 * HourSecs) THEN local + 4 * HourSecs ELSE local + 5 * HourSecs)
    ELSE local - ZoneOffset(zone, 0)

\* Date.prototype.getDay in the process's zone.
getDay(zone, t) == WeekdayOfDays((t + ZoneOffset(zone, t)) \div DaySecs)

\* d.setDate(d.getDate() + n) in the process's zone: calendar arithmetic on
\* the local date, the local time of day kept.
ShiftDays(local, n) == (local \div DaySecs + n) * DaySecs + (local % DaySecs)

setDatePlus(zone, t, n) == LocalToUTC(zone, ShiftDays(t + ZoneOffset(zone, t), n))

\* Date.prototype.toISOString: the six UTC fields.
ISOFields(c, s) ==
    <<c[1], c[2], c[3], s \div HourSecs, (s % HourSecs) \div MinuteSecs, s % MinuteSecs>>

toISOString(t) == ISOFields(CivilFromDays(t \div DaySecs), t % DaySecs)

\* An Invalid Date (time value NaN).
InvalidDate == 0 - 1
IsValidDate(t) == t >= 0

\* new Date(key + "THH:MM:SS" [+ "Z"]) under Node (V8): the month must be
\* 1..12 and the day 1..31; a day past the end of its month runs over into
\* the next month (February 30 is March 2), anything else is an Invalid Date.
IsCalendarDate(key) ==
    /\ key[2] \in 1..12
    /\ key[3] \in 1..31

\* The key names a day of the Gregorian calendar.
IsRealDate(key) ==
    /\ key[2] \in 1..12
    /\ key[3] \in 1..DaysInMonth(key[1], key[2])

ParseUTC(key, h, mi, s) ==
    IF IsCalendarDate(key)
    THEN DaysFromCivil(key[1], key[2], key[3]) * DaySecs + h * HourSecs + mi * MinuteSecs + s
    ELSE InvalidDate

\* Without the Z the string is a wall-clock time of the process's zone.
ParseLocal(zone, key, h, mi, s) ==
    IF IsCalendarDate(key)
    THEN LocalToUTC(zone, DaysFromCivil(key[1], key[2], key[3]) * DaySecs + h * HourSecs + mi * MinuteSecs + s)
    ELSE InvalidDate

----------------------------------------------------------------------------
(* Date/Timezone utilities of calendar.js.                                 *)

Pad2(n) == IF n < 10 THEN "0" \o ToString(n) ELSE ToString(n)

\* "10:00  AM/ET"
FormatParts(h24, minute) ==
    ToString(IF h24 % 12 = 0 THEN 12 ELSE h24 % 12) \o ":" \o Pad2(minute)
        \o "  " \o (IF h24 < 12 THEN "AM" ELSE "PM") \o "/ET"

FormatClock(secondOfDay) ==
    FormatParts(secondOfDay \div HourSecs, (secondOfDay % HourSecs) \div MinuteSecs)

formatTimeET(date) == FormatClock((date + ZoneOffset(TZ, date)) % DaySecs)

\* The date key of an instant in ET.
toETDateString(date) == CivilFromDays((date + ZoneOffset(TZ, date)) \div DaySecs)

DAYS == <<"Sunday", "Monday", "Tuesday", "Wednesday", "Thursday", "Friday", "Saturday">>

MONTHS == <<"January", "February", "March", "April", "May", "June", "July",
            "August", "September", "October", "November", "December">>

DateInfo(weekday, c) ==
    [day |-> DAYS[weekday + 1], month |-> MONTHS[c[2]], dayNum |-> c[3], year |-> c[1]]

DateInfoOfDays(z) == DateInfo(WeekdayOfDays(z), CivilFromDays(z))

getETDateInfo(date) == DateInfoOfDays((date + ZoneOffset(TZ, date)) \div DaySecs)

----------------------------------------------------------------------------
(* cleanSummary.  A character is a one-character string; "(note)" and      *)
(* "(loop)" stand for two pictographic emoji, "(vs16)" for the variation   *)
(* selector U+FE0F.  Digits, # and * have the Emoji property too.          *)

Emoji == {"(note)", "(loop)", "#", "*", "0", "1", "2", "3", "4", "5", "6", "7", "8", "9"}
EmojiComponent == {"(vs16)", "#", "*", "0", "1", "2", "3", "4", "5", "6", "7", "8", "9"}
WhiteSpace == {" ", "\t", "\n"}

UpperCase == <<"A", "B", "C", "D", "E", "F", "G", "H", "I", "J", "K", "L", "M",
               "N", "O", "P", "Q", "R", "S", "T", "U", "V", "W", "X", "Y", "Z">>
LowerCase == <<"a", "b", "c", "d", "e", "f", "g", "h", "i", "j", "k", "l", "m",
               "n", "o", "p", "q", "r", "s", "t", "u", "v", "w", "x", "y", "z">>

ToLower(c) ==
    IF \E i \in 1..Len(UpperCase) : UpperCase[i] = c
    THEN LowerCase[CHOOSE i \in 1..Len(UpperCase) : UpperCase[i] = c]
    ELSE c

RestreamWord == <<"r", "e", "s", "t", "r", "e", "a", "m">>

\* /restream/i.test(summary)
HasRestream(summary) ==
    \E i \in 1..(Len(summary) - Len(RestreamWord) + 1) :
        \A k \in 1..Len(RestreamWord) : ToLower(summary[i + k - 1]) = RestreamWord[k]

RECURSIVE StripLeading(_)
\* summary.replace(/^[\p{Emoji}\p{Emoji_Component}\s]+/u, "")
StripLeading(s) ==
    IF s # <<>> /\ Head(s) \in Emoji \cup EmojiComponent \cup WhiteSpace
    THEN StripLeading(Tail(s))
    ELSE s

RECURSIVE TrimEnd(_)
TrimEnd(s) ==
    IF s # <<>> /\ s[Len(s)] \in WhiteSpace
    THEN TrimEnd(SubSeq(s, 1, Len(s) - 1))
    ELSE s

RECURSIVE TrimStart(_)
TrimStart(s) ==
    IF s # <<>> /\ Head(s) \in WhiteSpace THEN TrimStart(Tail(s)) ELSE s

\* Mutant: only the start is trimmed.
Trim_StartOnly(s) == TrimStart(s)

\* String.prototype.trim
Trim(s) == TrimEnd(TrimStart(s))

\* Mutant: restreams are not filtered.
cleanSummary_KeepRestream(summary) ==
    IF summary = <<>> THEN <<>> ELSE Trim(StripLeading(summary))

\* A missing summary and the empty string are both <<>>.
cleanSummary(summary) ==
    IF summary = <<>> THEN <<>>
    ELSE IF HasRestream(summary) THEN <<>>
    ELSE Trim(StripLeading(summary))

----------------------------------------------------------------------------
(* resolveDayName and the target date of fetchShows.                       *)

IndexOfDay(name) ==
    IF \E i \in 1..Len(DAYS) : DAYS[i] = name
    THEN (CHOOSE i \in 1..Len(DAYS) : DAYS[i] = name) - 1
    ELSE 0 - 1

\* Lines 68 and 70: the number of days setDate adds.
DayDiff(dayIdx, today) == (dayIdx - today + 7) % 7

AddedDays(diff) == IF diff = 0 THEN 0 ELSE diff

\* Mutant: an unknown name resolves to today.
ResolveDayIndex_Today(dayIdx, zone, clock) ==
    IF dayIdx = 0 - 1 THEN <<toETDateString(clock)>>
    ELSE <<toETDateString(setDatePlus(zone, clock,
                                      AddedDays(DayDiff(dayIdx, getDay(zone, clock)))))>>

ResolveDayIndex(dayIdx, zone, clock) ==
    IF dayIdx = 0 - 1 THEN <<>>
    ELSE <<toETDateString(setDatePlus(zone, clock,
                                      AddedDays(DayDiff(dayIdx, getDay(zone, clock)))))>>

\* <<>> is the null returned for an unknown name.
resolveDayName(name, zone, clock) == ResolveDayIndex(IndexOfDay(name), zone, clock)

\* A token is <<>> (absent), <<"date", key>> for a string that matches
\* ^\d{4}-\d{2}-\d{2}$, or <<"text", s>> for any other string.
IsDateToken(arg) == arg # <<>> /\ arg[1] = "date"

\* Line 85, !dateArg: an absent token and the empty string alike.
IsFalsy(arg) == arg = <<>> \/ (arg[1] = "text" /\ arg[2] = "")

\* Lines 84-92: the target date key, or <<>> when the token is rejected.
ResolveTargetDate(arg, zone, clock) ==
    IF IsFalsy(arg) THEN <<toETDateString(clock)>>
    ELSE IF IsDateToken(arg) THEN <<arg[2]>>
    ELSE resolveDayName(arg[2], zone, clock)

\* Mutant: the window starts with the day in standard time.
WindowStart_EST(target) == ParseUTC(target, 5, 0, 0)

\* Lines 99-102: the UTC window of the recurrence expansion.
WindowStart(target) == ParseUTC(target, 4, 0, 0)

\* Mutant: the window ends with the day in daylight time.
EndOfWindowDay_EDT(iso) == ParseUTC(<<iso[1], iso[2], iso[3]>>, 3, 59, 59)

EndOfWindowDay(iso) == ParseUTC(<<iso[1], iso[2], iso[3]>>, 5, 59, 59)

WindowEnd(target, zone) ==
    EndOfWindowDay(toISOString(setDatePlus(zone, WindowStart(target), 1)))

----------------------------------------------------------------------------
(* The loop body of fetchShows.  An event is a record                      *)
(*   type, summary, start (<<>> or <<instant>>),                           *)
(*   rrule (<<>> or <<[occs |-> set of instants, bad |-> BOOLEAN]>>),      *)
(*   recurrences (sequence of [key, summary, start], in key order),        *)
(*   exdate (set of instants).                                             *)
(* acc is the record [shows, seen, error] the loop updates; error says that *)
(* an exception left the loop body.                                        *)

RECURSIVE SortedSeq(_)
\* The instants of a set in ascending order.
SortedSeq(S) ==
    IF S = {} THEN <<>>
    ELSE LET lo == CHOOSE x \in S : \A y \in S : x <= y
         IN  <<lo>> \o SortedSeq(S \ {lo})

\* rrule.between(after, before, true): the rule's occurrences in the closed
\* window, ascending.
between(rrule, after, before) ==
    SortedSeq({t \in rrule.occs : after <= t /\ t <= before})

\* event.recurrences[key]: <<>> when there is none.
Recurrence(recurrences, key) ==
    IF \E i \in 1..Len(recurrences) : recurrences[i].key = key
    THEN <<recurrences[CHOOSE i \in 1..Len(recurrences) : recurrences[i].key = key]>>
    ELSE <<>>

\* Mutant: the occurrence's ISO string is looked up first.
FindOverride_InstantFirst(recurrences, target, occ) ==
    IF Recurrence(recurrences, toISOString(occ)) # <<>>
    THEN Recurrence(recurrences, toISOString(occ))
    ELSE Recurrence(recurrences, target)

\* Lines 124-126: the date key is looked up first, then the occurrence's
\* ISO string.
FindOverride(recurrences, target, occ) ==
    IF Recurrence(recurrences, target) # <<>>
    THEN Recurrence(recurrences, target)
    ELSE Recurrence(recurrences, toISOString(occ))

\* Mutant: exclusions are ignored.
Excluded_Never(exdate, target) == FALSE

\* Lines 134-139.
Excluded(exdate, target) ==
    \E d \in exdate : IsValidDate(d) /\ toETDateString(d) = target

\* Mutant: the date of the instant in UTC instead of ET.
OnTargetDate_UTC(startTime, target) ==
    IsValidDate(startTime) /\ CivilFromDays(startTime \div DaySecs) = target

\* Lines 142-144, 163-165, 182: the date test; an Invalid Date makes
\* toETDateString throw, which every caller turns into a skip.
OnTargetDate(startTime, target) ==
    IsValidDate(startTime) /\ toETDateString(startTime) = target

\* The dedupe key time + "|" + name.
ShowKey(time, name) == <<time, name>>

\* Mutant: the seen set is never consulted.
IsDuplicate_Never(seenKeys, key) == FALSE

IsDuplicate(seenKeys, key) == key \in seenKeys

\* Lines 147-156: skip an empty name and a seen key, else push.  ev, via
\* and occ record where the show came from.
PushNamed(acc, name, time, startTime, ev, via, occ) ==
    IF name = <<>> THEN acc
    ELSE IF IsDuplicate(acc.seen, ShowKey(time, name)) THEN acc
    ELSE [acc EXCEPT !.shows = Append(acc.shows,
                                      [time |-> time, name |-> name, _sort |-> startTime,
                                       ev |-> ev, via |-> via, occ |-> occ]),
                     !.seen = acc.seen \cup {ShowKey(time, name)}]

\* Lines 146-156 (and 167-177, 184-194): clean, dedupe, push.
PushShow(acc, summary, startTime, ev, via, occ) ==
    PushNamed(acc, cleanSummary(summary), formatTimeET(startTime), startTime, ev, via, occ)

\* Lines 128-129: an override replaces the fields it carries.
EffectiveSummary(event, override) ==
    IF override # <<>> /\ override[1].summary # <<>> THEN override[1].summary ELSE event.summary

EffectiveStart(occ, override) ==
    IF override # <<>> /\ override[1].start # <<>> THEN override[1].start[1] ELSE occ

\* Lines 133-156: exclusion, date test, push.
ExpandCandidate(acc, event, occ, target, ev, summary, startTime) ==
    IF Excluded(event.exdate, target) THEN acc
    ELSE IF ~OnTargetDate(startTime, target) THEN acc
    ELSE PushShow(acc, summary, startTime, ev, "rrule", occ)

ExpandWithOverride(acc, event, occ, target, ev, override) ==
    ExpandCandidate(acc, event, occ, target, ev,
                    EffectiveSummary(event, override), EffectiveStart(occ, override))

\* Lines 118-157: one occurrence of the expansion.
ExpandOccurrence(acc, event, occ, target, ev) ==
    ExpandWithOverride(acc, event, occ, target, ev,
                       FindOverride(event.recurrences, target, occ))

RECURSIVE ExpandOccurrences(_, _, _, _, _)
ExpandOccurrences(acc, event, occurrences, target, ev) ==
    IF occurrences = <<>> THEN acc
    ELSE ExpandOccurrences(ExpandOccurrence(acc, event, Head(occurrences), target, ev),
                           event, Tail(occurrences), target, ev)

\* Mutant: no scan for moved occurrences.
ScanOverride_Skip(acc, event, override, target, ev) == acc

\* Lines 161-178: one override of the scan for moved occurrences.
ScanOverride(acc, event, override, target, ev) ==
    IF override.start = <<>> THEN acc
    ELSE IF ~OnTargetDate(override.start[1], target) THEN acc
    ELSE PushShow(acc, IF override.summary # <<>> THEN override.summary ELSE event.summary,
                  override.start[1], ev, "override", override.start[1])

RECURSIVE ScanOverrides(_, _, _, _, _)
ScanOverrides(acc, event, overrides, target, ev) ==
    IF overrides = <<>> THEN acc
    ELSE ScanOverrides(ScanOverride(acc, event, Head(overrides), target, ev),
                       event, Tail(overrides), target, ev)

\* Mutant: the exception leaves the loop body.
SkipEvent_Rethrow(acc) == [acc EXCEPT !.error = TRUE]

\* Lines 116 and 196-199: the catch blocks of the loop body swallow the
\* exception and go on with the next event (continue).
SkipEvent(acc) == acc

\* Lines 108-199: the body of the for loop for one event.  rrule.between
\* throws for a rule that does not expand (line 115), toETDateString for a
\* one-off event whose start is an Invalid Date (line 182).
ProcessOne(acc, event, target, after, before, ev) ==
    IF event.type # "VEVENT" THEN acc
    ELSE IF event.rrule # <<>>
    THEN IF event.rrule[1].bad THEN SkipEvent(acc)
         ELSE ScanOverrides(
                  ExpandOccurrences(acc, event, between(event.rrule[1], after, before), target, ev),
                  event, event.recurrences, target, ev)
    ELSE IF event.start # <<>>
    THEN IF ~IsValidDate(event.start[1]) THEN SkipEvent(acc)
         ELSE IF ~OnTargetDate(event.start[1], target) THEN acc
         ELSE PushShow(acc, event.summary, event.start[1], ev, "oneoff", event.start[1])
    ELSE acc

RECURSIVE RunLoop(_, _, _, _, _, _)
\* Lines 107-200: the whole for loop over the events from position ev on.
RunLoop(acc, events, target, after, before, ev) ==
    IF events = <<>> \/ acc.error THEN acc
    ELSE RunLoop(ProcessOne(acc, Head(events), target, after, before, ev),
                 Tail(events), target, after, before, ev + 1)

RECURSIVE InsertSorted_Unstable(_, _)
\* Mutant: x goes before the elements equal to it.
InsertSorted_Unstable(sorted, x) ==
    IF sorted = <<>> THEN <<x>>
    ELSE IF Head(sorted)._sort < x._sort
    THEN <<Head(sorted)>> \o InsertSorted_Unstable(Tail(sorted), x)
    ELSE <<x>> \o sorted

RECURSIVE InsertSorted(_, _)
\* x goes after every element that is not greater: the sort is stable.
InsertSorted(sorted, x) ==
    IF sorted = <<>> THEN <<x>>
    ELSE IF Head(sorted)._sort <= x._sort
    THEN <<Head(sorted)>> \o InsertSorted(Tail(sorted), x)
    ELSE <<x>> \o sorted

RECURSIVE SortFrom(_, _)
SortFrom(sorted, rest) ==
    IF rest = <<>> THEN sorted
    ELSE SortFrom(InsertSorted(sorted, Head(rest)), Tail(rest))

\* Line 202: shows.sort((a, b) => a._sort - b._sort), a stable sort.
SortShows(s) == SortFrom(<<>>, s)

\* Line 203 and the Show of the Schedule: time and name only.
StripShows(s) == [i \in 1..Len(s) |-> [time |-> s[i].time, name |-> s[i].name]]

\* Lines 206-208: the description of the target date.
DescribeTarget(target, zone) == getETDateInfo(ParseLocal(zone, target, 12, 0, 0))

----------------------------------------------------------------------------
(* fetchShows as a state machine.                                          *)

\* Lines 84-92.
ResolveTarget ==
    /\ pc = "start"
    /\ \E resolved \in {ResolveTargetDate(dateArg, serverTZ, now)} :
           IF resolved = <<>>
           THEN /\ pc' = "failed"
                /\ result' = [error |-> "Invalid date", token |-> dateArg[2]]
                /\ UNCHANGED targetDate
           ELSE /\ pc' = "fetch"
                /\ targetDate' = resolved[1]
                /\ UNCHANGED result
    /\ UNCHANGED <<dateArg, now, serverTZ, data, rruleAfter, rruleBefore, idx, shows, seen,
                   pushed, fetched>>
    /\ UNCHANGED botVars

\* Lines 95-105: the feed arrives (one of feeds), the window is computed
\* and the loop state is set up.  When rruleAfter is an Invalid Date, so is
\* nextDay, and nextDay.toISOString() on line 102 throws a RangeError that
\* nothing catches.
FetchFeed(feeds) ==
    /\ pc = "fetch"
    /\ \E f \in feeds : data' = f
    /\ fetched' = TRUE
    /\ rruleAfter' = WindowStart(targetDate)
    /\ IF IsValidDate(WindowStart(targetDate))
       THEN /\ rruleBefore' = WindowEnd(targetDate, serverTZ)
            /\ idx' = 1
            /\ shows' = <<>>
            /\ seen' = {}
            /\ pc' = "loop"
            /\ UNCHANGED result
       ELSE /\ pc' = "failed"
            /\ result' = [error |-> "RangeError: Invalid time value"]
            /\ UNCHANGED <<rruleBefore, idx, shows, seen>>
    /\ UNCHANGED <<dateArg, now, serverTZ, targetDate, pushed>>
    /\ UNCHANGED botVars

\* Lines 107-200: one iteration of the for loop.  An exception that leaves
\* the loop body would reject the promise of fetchShows.
ProcessEvent ==
    /\ pc = "loop"
    /\ idx <= Len(data)
    /\ \E acc \in {ProcessOne([shows |-> shows, seen |-> seen, error |-> FALSE], data[idx],
                              targetDate, rruleAfter, rruleBefore, idx)} :
           /\ shows' = acc.shows
           /\ seen' = acc.seen
           /\ IF acc.error
              THEN /\ pc' = "failed"
                   /\ result' = [error |-> "event"]
                   /\ UNCHANGED idx
              ELSE /\ idx' = idx + 1
                   /\ UNCHANGED <<pc, result>>
    /\ UNCHANGED <<dateArg, now, serverTZ, targetDate, data, rruleAfter, rruleBefore,
                   pushed, fetched>>
    /\ UNCHANGED botVars

\* Lines 202-211: sort, describe the date, return.
Finish ==
    /\ pc = "loop"
    /\ idx > Len(data)
    /\ pushed' = shows
    /\ shows' = SortShows(shows)
    /\ result' = [info  |-> DescribeTarget(targetDate, serverTZ),
                  shows |-> StripShows(SortShows(shows))]
    /\ pc' = "done"
    /\ UNCHANGED <<dateArg, now, serverTZ, targetDate, data, rruleAfter, rruleBefore, idx,
                   seen, fetched>>
    /\ UNCHANGED botVars

\* The generator runs of the bot model; none is started in the models of
\* fetchShows.
MaxRuns == 2

Runs == 1..MaxRuns

IdleRun ==
    [pc |-> "idle", arg |-> <<>>, acked |-> FALSE, cron |-> FALSE, day |-> "", doc |-> 0,
     exit |-> 0, failure |-> "none", reply |-> "none", posted |-> 0]

NoRuns ==
    /\ run = [r \in Runs |-> IdleRun]
    /\ tmpPsd = 0
    /\ png = [d \in {DAYS[i] : i \in 1..Len(DAYS)} |-> 0]

\* Mutant: main goes on to render whatever the schedule holds.
AfterFetch_Render(showSeq) == "render"

\* generate.js, lines 111-114: main stops with process.exit(1) when the
\* schedule has no show, before any template is read.
AfterFetch(showSeq) == IF Len(showSeq) = 0 THEN "exit" ELSE "render"

\* generate.js, lines 108-116: main takes the Schedule of fetchShows.
MainCheckShows ==
    /\ pc = "done"
    /\ pc' = AfterFetch(result.shows)
    /\ UNCHANGED <<dateArg, now, serverTZ, targetDate, data, rruleAfter, rruleBefore, idx,
                   shows, seen, pushed, fetched, result>>
    /\ UNCHANGED botVars

----------------------------------------------------------------------------
(* Inputs of the feed model: two target dates around the start of daylight *)
(* time (Sunday 2026-03-08), instants on them, and events built from them. *)

MaxEvents == 2
MaxOverrides == 2

DateA == <<2026, 3, 7>>
DateB == <<2026, 3, 8>>

AtET(key, h, mi) == ParseLocal(TZ, key, h, mi, 0)

tA10 == AtET(DateA, 10, 0)
tA14 == AtET(DateA, 14, 0)
tA2330 == AtET(DateA, 23, 30)
tB0030 == AtET(DateB, 0, 30)
tB10 == AtET(DateB, 10, 0)

sDeep == <<"(note)", " ", "D", "C">>
sPlain == <<"D", "C">>
sOther == <<"L", "I", " ">>
sRestream == <<"A", " ", "R", "e", "S", "T", "R", "E", "A", "M">>

OneOffInstants == {tA10, tA10 + 30, tA2330, tB10}
PlainRuleInstants == {tA10, tA2330, tB0030}
RuleInstants == {tA10, tA2330, tB10}
OverrideStarts == {tA14, tB10}
OverrideKeys == {DateA, DateB, toISOString(tA10)}

OneOffEvents ==
    {[type |-> "VEVENT", summary |-> s, start |-> <<t>>, rrule |-> <<>>,
      recurrences |-> <<>>, exdate |-> {}] :
        s \in {sDeep, sPlain, sOther, sRestream}, t \in OneOffInstants}

PlainRecurringEvents ==
    {[type |-> "VEVENT", summary |-> s, start |-> <<tA10>>,
      rrule |-> <<[occs |-> o, bad |-> FALSE]>>, recurrences |-> <<>>, exdate |-> {}] :
        s \in {sDeep}, o \in SUBSET PlainRuleInstants}

OtherComponents ==
    {[type |-> "VTIMEZONE", summary |-> sPlain, start |-> <<tA10>>, rrule |-> <<>>,
      recurrences |-> <<>>, exdate |-> {}]}

SimpleEvents == OneOffEvents \cup PlainRecurringEvents \cup OtherComponents

\* An override carries a summary, a start, or both.
Overrides ==
    {o \in [key : OverrideKeys, summary : {<<>>, sOther},
            start : {<<>>} \cup {<<t>> : t \in OverrideStarts}] :
        o.summary # <<>> \/ o.start # <<>>}

\* Sequences of at most n overrides with distinct keys.
RECURSIVE OverrideSeqs(_)
OverrideSeqs(n) ==
    IF n = 0 THEN {<<>>}
    ELSE OverrideSeqs(n - 1) \cup
         {Append(r, o) : r \in {q \in OverrideSeqs(n - 1) : Len(q) = n - 1},
                         o \in Overrides}

DistinctKeys(r) == \A i, j \in 1..Len(r) : i # j => r[i].key # r[j].key

OverriddenEvents ==
    {[type |-> "VEVENT", summary |-> s, start |-> <<tA10>>,
      rrule |-> <<[occs |-> o, bad |-> FALSE]>>, recurrences |-> r, exdate |-> x] :
        s \in {sDeep, sRestream}, o \in SUBSET RuleInstants,
        r \in {q \in OverrideSeqs(MaxOverrides) : q # <<>> /\ DistinctKeys(q)},
        x \in {{}, {tA10}}}

RECURSIVE FeedsUpTo(_)
FeedsUpTo(n) ==
    IF n = 0 THEN {<<>>}
    ELSE FeedsUpTo(n - 1) \cup
         {Append(f, e) : f \in {g \in FeedsUpTo(n - 1) : Len(g) = n - 1}, e \in SimpleEvents}

Feeds == FeedsUpTo(MaxEvents) \cup {<<e>> : e \in OverriddenEvents}

Init ==
    /\ dateArg \in {<<"date", DateA>>, <<"date", DateB>>}
    /\ now = tA10
    /\ serverTZ = TZ
    /\ pc = "start"
    /\ targetDate = <<>>
    /\ data = <<>>
    /\ rruleAfter = 0
    /\ rruleBefore = 0
    /\ idx = 0
    /\ shows = <<>>
    /\ seen = {}
    /\ pushed = <<>>
    /\ fetched = FALSE
    /\ result = <<>>
    /\ NoRuns

Next ==
    \/ ResolveTarget
    \/ FetchFeed(Feeds)
    \/ ProcessEvent
    \/ Finish
    \/ MainCheckShows

Spec == Init /\ [][Next]_vars

----------------------------------------------------------------------------
(* Claims about the schedule.                                              *)

SameKey(a, b) == a.time = b.time /\ a.name = b.name

NoTwoAlike(s) == \A i, j \in 1..Len(s) : i # j => ~SameKey(s[i], s[j])

IsPrefix(a, b) == Len(a) <= Len(b) /\ SubSeq(b, 1, Len(a)) = a

IsOneOff(e) == e.type = "VEVENT" /\ e.rrule = <<>> /\ e.start # <<>>
IsRecurring(e) == e.type = "VEVENT" /\ e.rrule # <<>>

\* C1: the schedule never holds two Shows with the same (formatted time,
\* name): while the loop runs and in the returned schedule the keys are
\* pairwise different, and a step of the loop only appends to the shows
\* pushed so far, so of two candidates with one key the first is the one kept.
C1_NoDuplicateShows ==
    /\ [](NoTwoAlike(shows) /\ (pc = "done" => NoTwoAlike(result.shows)))
    /\ [][pc = "loop" /\ pc' = "loop" => IsPrefix(shows, shows')]_vars

\* C1 witness: two one-off events with different summaries and different
\* instants, but one cleaned name and one formatted time, gave one Show.
C1_Witness ==
    /\ pc = "done"
    /\ Len(data) = 2
    /\ IsOneOff(data[1]) /\ IsOneOff(data[2])
    /\ data[1].summary # data[2].summary
    /\ data[1].start # data[2].start
    /\ Len(result.shows) = 1
    /\ shows[1].ev = 1
    /\ toETDateString(data[2].start[1]) = targetDate
    /\ cleanSummary(data[2].summary) = shows[1].name

PositionIn(s, x) == CHOOSE i \in 1..Len(s) : s[i] = x

\* C2: the returned Shows are in non-decreasing order of start instant,
\* Shows with one instant are in the order they were pushed, and the
\* schedule holds exactly the pushed Shows.
C2_SortedByInstant ==
    pc = "done" =>
        /\ Len(shows) = Len(pushed)
        /\ \A i \in 1..Len(shows) : \E k \in 1..Len(pushed) : pushed[k] = shows[i]
        /\ result.shows = StripShows(shows)
        /\ \A i, j \in 1..Len(shows) :
               i < j =>
                   /\ shows[i]._sort <= shows[j]._sort
                   /\ shows[i]._sort = shows[j]._sort =>
                          PositionIn(pushed, shows[i]) < PositionIn(pushed, shows[j])

\* C2 witness: three Shows pushed out of order, two of them at one instant.
C2_Witness ==
    /\ pc = "done"
    /\ Len(shows) = 3
    /\ pushed # shows
    /\ shows[1]._sort = shows[2]._sort
    /\ shows[2]._sort < shows[3]._sort

\* C3: every Show comes from a start instant whose ET date key is the
\* target date, and its time is that instant's formatted time.
C3_OnlyTargetDate ==
    \A i \in 1..Len(shows) :
        /\ toETDateString(shows[i]._sort) = targetDate
        /\ shows[i].time = formatTimeET(shows[i]._sort)

InWindow(t) == rruleAfter <= t /\ t <= rruleBefore

\* C3 witness: a rule with one occurrence on the target date and one
\* inside the window but on a neighbouring date gave a single Show.
C3_Witness ==
    /\ pc = "done"
    /\ Len(data) = 1
    /\ IsRecurring(data[1])
    /\ \E t \in data[1].rrule[1].occs : InWindow(t) /\ toETDateString(t) # targetDate
    /\ \E t \in data[1].rrule[1].occs : toETDateString(t) = targetDate
    /\ Len(shows) = 1

\* The occurrence instants of an event: the rule's, or the single start.
OccurrencesOf(e) ==
    IF e.rrule # <<>> THEN e.rrule[1].occs
    ELSE IF e.start # <<>> THEN {e.start[1]} ELSE {}

IsPlain(e) ==
    /\ e.type = "VEVENT"
    /\ e.recurrences = <<>>
    /\ e.exdate = {}
    /\ ~HasRestream(e.summary)
    /\ cleanSummary(e.summary) # <<>>

OnDate(e, key) == {t \in OccurrencesOf(e) : toETDateString(t) = key}

\* C4: an event without overrides and exclusions whose summary is no
\* restream and cleans to a name N yields a Show (time of t, N) for each of
\* its occurrences t on the target date and no other Show; with exactly
\* one occurrence on the date, the schedule has exactly one such Show.
C4_Complete ==
    pc = "done" =>
        \A i \in 1..Len(data) :
            IsPlain(data[i]) =>
                /\ \A t \in OnDate(data[i], targetDate) :
                       \E k \in 1..Len(result.shows) :
                           result.shows[k] = [time |-> formatTimeET(t),
                                              name |-> cleanSummary(data[i].summary)]
                /\ \A k \in 1..Len(shows) :
                       shows[k].ev = i =>
                           /\ shows[k]._sort \in OnDate(data[i], targetDate)
                           /\ shows[k].name = cleanSummary(data[i].summary)
                /\ Cardinality(OnDate(data[i], targetDate)) = 1 =>
                       Cardinality({k \in 1..Len(result.shows) :
                           \E t \in OnDate(data[i], targetDate) :
                               result.shows[k] = [time |-> formatTimeET(t),
                                                  name |-> cleanSummary(data[i].summary)]}) = 1

\* C4 witness: a recurring event with occurrences on both dates gave the
\* one Show of its occurrence late on the target date, next to a one-off
\* event's Show.
C4_Witness ==
    /\ pc = "done"
    /\ Len(data) = 2
    /\ IsRecurring(data[1]) /\ IsPlain(data[1])
    /\ IsOneOff(data[2]) /\ IsPlain(data[2])
    /\ OnDate(data[1], targetDate) = {tA2330}
    /\ Cardinality(OccurrencesOf(data[1])) > 1
    /\ Len(shows) = 2
    /\ shows[2].ev = 1

----------------------------------------------------------------------------
(* Claims about overrides, exclusions and restreams.                       *)

\* The overrides of e written for occurrence a (keyed by a's date key or
\* by a's instant) that carry a start on another date.
MovesAway(e, a) ==
    {k \in 1..Len(e.recurrences) :
        /\ e.recurrences[k].key \in {toETDateString(a), toISOString(a)}
        /\ e.recurrences[k].start # <<>>
        /\ toETDateString(e.recurrences[k].start[1]) # toETDateString(a)}

OverrideName(e, o) == cleanSummary(IF o.summary # <<>> THEN o.summary ELSE e.summary)

HasShowAt(t, name) ==
    \E k \in 1..Len(shows) : shows[k]._sort = t /\ shows[k].name = name

FromOccurrence(i, a) ==
    \E k \in 1..Len(shows) : shows[k].ev = i /\ shows[k].via = "rrule" /\ shows[k].occ = a

\* C6 as stated: an override that moves an occurrence from date A to date
\* B puts a Show at the override's start into B's schedule, and A's
\* schedule has no Show for that occurrence.
C6_Original ==
    pc = "done" =>
        \A i \in 1..Len(data) :
            IsRecurring(data[i]) =>
                \A a \in data[i].rrule[1].occs : \A k \in MovesAway(data[i], a) :
                    /\ targetDate = toETDateString(data[i].recurrences[k].start[1]) =>
                           \E n \in 1..Len(shows) :
                               shows[n]._sort = data[i].recurrences[k].start[1]
                    /\ targetDate = toETDateString(a) => ~FromOccurrence(i, a)

\* C6 amended: the Show on date B needs a name (the override's summary, or
\* else the event's, must clean to a non-empty name), and date A loses the
\* occurrence when the moving override is the one the lookup finds for it
\* (no other override is keyed by A's date key).
C6_Relocation ==
    pc = "done" =>
        \A i \in 1..Len(data) :
            IsRecurring(data[i]) =>
                \A a \in data[i].rrule[1].occs : \A k \in MovesAway(data[i], a) :
                    /\ (/\ targetDate = toETDateString(data[i].recurrences[k].start[1])
                        /\ OverrideName(data[i], data[i].recurrences[k]) # <<>>) =>
                           HasShowAt(data[i].recurrences[k].start[1],
                                     OverrideName(data[i], data[i].recurrences[k]))
                    /\ (/\ targetDate = toETDateString(a)
                        /\ FindOverride(data[i].recurrences, targetDate, a)
                               = <<data[i].recurrences[k]>>) =>
                           ~FromOccurrence(i, a)

\* C6 witness: the rule's only occurrence, on date A, is moved to date B by
\* an override; B's schedule has the Show although no occurrence is on B.
C6_Witness ==
    /\ pc = "done"
    /\ targetDate = DateB
    /\ Len(data) = 1
    /\ IsRecurring(data[1])
    /\ data[1].rrule[1].occs = {tA10}
    /\ MovesAway(data[1], tA10) # {}
    /\ Len(shows) = 1
    /\ shows[1]._sort = tB10
    /\ shows[1].via = "override"

ExcludedOn(e, key) == \E d \in e.exdate : toETDateString(d) = key

\* C7 as stated: a recurring event with an exclusion on the target date
\* contributes no Show at all, by the expansion or by the override scan.
C7_Original ==
    \A k \in 1..Len(shows) :
        IsRecurring(data[shows[k].ev]) => ~ExcludedOn(data[shows[k].ev], targetDate)

\* C7 amended: such an event contributes no Show through the recurrence
\* expansion; a Show of it can only come from the override scan, for an
\* override whose own start is on the target date.
C7_Exclusion ==
    \A k \in 1..Len(shows) :
        (IsRecurring(data[shows[k].ev]) /\ ExcludedOn(data[shows[k].ev], targetDate)) =>
            /\ shows[k].via = "override"
            /\ \E n \in 1..Len(data[shows[k].ev].recurrences) :
                   /\ data[shows[k].ev].recurrences[n].start = <<shows[k]._sort>>
                   /\ toETDateString(shows[k]._sort) = targetDate

\* C7 witness: the rule has an occurrence on the target date, an exclusion
\* on that date and no override that starts there: no Show.
C7_Witness ==
    /\ pc = "done"
    /\ Len(data) = 1
    /\ IsRecurring(data[1])
    /\ ~HasRestream(data[1].summary)
    /\ OnDate(data[1], targetDate) # {}
    /\ ExcludedOn(data[1], targetDate)
    /\ shows = <<>>

\* C8 as stated: an event whose own summary contains "restream" contributes
\* no Show, also when an override replaces the summary.
C8_Original ==
    \A k \in 1..Len(shows) : ~HasRestream(data[shows[k].ev].summary)

\* C8 amended: the restream test is made on the summary in effect.  An
\* event whose own summary contains "restream" contributes no Show, except
\* for an occurrence whose override carries its own summary without
\* "restream": that Show bears the override's cleaned name.
C8_Restream ==
    \A k \in 1..Len(shows) :
        /\ ~HasRestream(shows[k].name)
        /\ HasRestream(data[shows[k].ev].summary) =>
               \E n \in 1..Len(data[shows[k].ev].recurrences) :
                   /\ data[shows[k].ev].recurrences[n].summary # <<>>
                   /\ ~HasRestream(data[shows[k].ev].recurrences[n].summary)
                   /\ shows[k].name = cleanSummary(data[shows[k].ev].recurrences[n].summary)

\* C8 witness: a one-off event and a recurring one, both restreams with an
\* occurrence on the target date, gave an empty schedule.
C8_Witness ==
    /\ pc = "done"
    /\ Len(data) = 2
    /\ IsOneOff(data[1]) /\ HasRestream(data[1].summary)
    /\ toETDateString(data[1].start[1]) = targetDate
    /\ result.shows = <<>>

----------------------------------------------------------------------------
(* The day model: every kind of token, clocks through the days around both *)
(* 2026 transitions (March 8 and November 1), three server zones, and a    *)
(* feed with one weekly event on Fridays at 11:30 PM ET.                   *)

NowHours == 96
ProbeDays == 3

DayDates ==
    {<<2026, 3, 6>>, <<2026, 3, 7>>, <<2026, 3, 8>>, <<2026, 3, 13>>,
     <<2026, 10, 30>>, <<2026, 10, 31>>, <<2026, 11, 1>>, <<2026, 11, 6>>}

\* Date keys that match ^\d{4}-\d{2}-\d{2}$ and name no calendar date.
UnrealDates == {<<2026, 13, 1>>, <<2026, 3, 45>>, <<2026, 2, 30>>}

\* Strings that are neither a date key nor one of the seven names.
OtherTexts == {"saturday", "someday", ""}

DayArgs ==
    {<<>>} \cup {<<"text", DAYS[i]>> : i \in 1..Len(DAYS)} \cup {<<"date", k>> : k \in DayDates}
        \cup {<<"date", k>> : k \in UnrealDates} \cup {<<"text", s>> : s \in OtherTexts}

Nows ==
    {ParseUTC(base, 0, 0, 0) + k * HourSecs :
        base \in {<<2026, 3, 6>>, <<2026, 10, 30>>}, k \in 0..(NowHours - 1)}

Fridays == {<<2026, 3, 6>>, <<2026, 3, 13>>, <<2026, 10, 30>>, <<2026, 11, 6>>}

WeeklyFriday ==
    [type |-> "VEVENT", summary |-> sDeep, start |-> <<AtET(<<2026, 3, 6>>, 23, 30)>>,
     rrule |-> <<[occs |-> {AtET(d, 23, 30) : d \in Fridays}, bad |-> FALSE]>>,
     recurrences |-> <<>>, exdate |-> {}]

DayFeeds == {<<WeeklyFriday>>}

InitDay ==
    /\ dateArg \in DayArgs
    /\ now \in Nows
    /\ serverTZ \in Zones
    /\ pc = "start"
    /\ targetDate = <<>>
    /\ data = <<>>
    /\ rruleAfter = 0
    /\ rruleBefore = 0
    /\ idx = 0
    /\ shows = <<>>
    /\ seen = {}
    /\ pushed = <<>>
    /\ fetched = FALSE
    /\ result = <<>>
    /\ NoRuns

NextDay ==
    \/ ResolveTarget
    \/ FetchFeed(DayFeeds)
    \/ ProcessEvent
    \/ Finish

SpecDay == InitDay /\ [][NextDay]_vars

\* The first and the last second of every hour of the target date, the day
\* before and the day after, in UTC.
Probes(key) ==
    {ParseUTC(key, 0, 0, 0) - DaySecs + k * HourSecs + e :
        k \in 0..(ProbeDays * 24 - 1), e \in {0, HourSecs - 1}}

DayNumber(key) == DaysFromCivil(key[1], key[2], key[3])

\* C5: the expansion window holds every instant whose ET date key is the
\* target date, on standard, daylight and transition days alike; and the
\* weekly Friday 11:30 PM occurrence is shown on its Friday and on no
\* other date.
C5_WindowCoversDate ==
    /\ (pc = "loop" /\ idx = 1) =>
           \A t \in Probes(targetDate) : toETDateString(t) = targetDate => InWindow(t)
    /\ pc = "done" =>
           IF targetDate \in Fridays
           THEN /\ Len(shows) = 1
                /\ shows[1]._sort = AtET(targetDate, 23, 30)
                /\ result.shows = <<[time |-> "11:30  PM/ET", name |-> <<"D", "C">>]>>
           ELSE result.shows = <<>>

\* C5 witness: on the Saturday before daylight time starts, Friday's
\* occurrence is inside the window and is not shown.
C5_Witness ==
    /\ pc = "done"
    /\ targetDate = <<2026, 3, 7>>
    /\ InWindow(AtET(<<2026, 3, 6>>, 23, 30))
    /\ result.shows = <<>>

\* C9 (as stated): a weekday name resolves to the first date on or after
\* today's ET date that falls on that weekday, whatever the server's zone.
C9_Original ==
    (pc = "fetch" /\ dateArg # <<>> /\ dateArg[1] = "text" /\ IndexOfDay(dateArg[2]) # 0 - 1) =>
        /\ DayNumber(targetDate) - DayNumber(toETDateString(now)) \in 0..6
        /\ WeekdayOfDays(DayNumber(targetDate)) = IndexOfDay(dateArg[2])

\* C10 (as stated): the returned weekday, month, day number and year are
\* those of the target date itself, whatever the server's zone.
C10_Original ==
    (pc = "done" /\ IsRealDate(targetDate)) =>
        result.info = DateInfo(WeekdayOfDays(DayNumber(targetDate)), targetDate)

----------------------------------------------------------------------------
(* Claims about tokens the Day Resolver does not know.                     *)

IsUnrealToken(arg) == IsDateToken(arg) /\ ~IsRealDate(arg[2])

\* C11 (as stated): a token in date format that names no calendar date is
\* the target date key verbatim, the resolution ends normally with an empty
\* Show sequence, and it never ends in a thrown error.
C11_Original ==
    IsUnrealToken(dateArg) =>
        /\ pc # "failed"
        /\ pc # "start" => targetDate = dateArg[2]
        /\ pc = "done" => result.shows = <<>>

\* A string that is neither in date format nor one of the seven names.
IsUnknownText(arg) == arg # <<>> /\ arg[1] = "text" /\ IndexOfDay(arg[2]) = 0 - 1

Rejected ==
    /\ pc = "failed"
    /\ result = [error |-> "Invalid date", token |-> dateArg[2]]
    /\ ~fetched

\* C12 as stated: every present token that is neither in date format nor
\* one of the seven capitalised names is rejected with the invalid-date
\* error that carries the token, before the feed is fetched.
C12_Original ==
    (IsUnknownText(dateArg) /\ pc # "start") => Rejected

\* C12 amended: this holds for every such token except the empty string,
\* which line 85 takes for an absent token; and only such tokens are
\* rejected.
C12_InvalidToken ==
    /\ (IsUnknownText(dateArg) /\ dateArg[2] # "" /\ pc # "start") => Rejected
    /\ (pc = "failed" /\ ~fetched) => (IsUnknownText(dateArg) /\ dateArg[2] # "")
    /\ (IsUnknownText(dateArg) /\ dateArg[2] = "" /\ pc # "start") =>
           (pc # "failed" /\ targetDate = toETDateString(now))

\* C12 witness: the lower-case weekday name was rejected.
C12_Witness ==
    /\ dateArg = <<"text", "saturday">>
    /\ Rejected

----------------------------------------------------------------------------
(* The fault model: feeds of up to MaxFaultEvents events, some of which    *)
(* make the loop body throw.                                               *)

MaxFaultEvents == 3

\* A rule that does not expand; expanded, it would have an occurrence on
\* either date.
BadRule ==
    [type |-> "VEVENT", summary |-> sDeep, start |-> <<tA10>>,
     rrule |-> <<[occs |-> {tA10, tB10}, bad |-> TRUE]>>, recurrences |-> <<>>, exdate |-> {}]

\* A one-off event whose start is an Invalid Date.
BadStart ==
    [type |-> "VEVENT", summary |-> sPlain, start |-> <<InvalidDate>>, rrule |-> <<>>,
     recurrences |-> <<>>, exdate |-> {}]

\* A recurring event with an override whose start is an Invalid Date and an
\* exclusion that is one: the occurrence at tA10 is lost, the other is not.
BadOverride ==
    [type |-> "VEVENT", summary |-> sOther, start |-> <<tA10>>,
     rrule |-> <<[occs |-> {tA10, tA2330}, bad |-> FALSE]>>,
     recurrences |-> <<[key |-> toISOString(tA10), summary |-> <<>>, start |-> <<InvalidDate>>]>>,
     exdate |-> {InvalidDate}]

GoodRule ==
    [type |-> "VEVENT", summary |-> sDeep, start |-> <<tA10>>,
     rrule |-> <<[occs |-> {tA10, tB10}, bad |-> FALSE]>>, recurrences |-> <<>>, exdate |-> {}]

GoodOneOffs ==
    {[type |-> "VEVENT", summary |-> sm[1], start |-> <<sm[2]>>, rrule |-> <<>>,
      recurrences |-> <<>>, exdate |-> {}] :
        sm \in {<<sPlain, tA10>>, <<sOther, tA14>>, <<sOther, tB10>>}}

FaultEvents == {BadRule, BadStart, BadOverride, GoodRule} \cup GoodOneOffs

RECURSIVE FaultFeedsUpTo(_)
FaultFeedsUpTo(n) ==
    IF n = 0 THEN {<<>>}
    ELSE FaultFeedsUpTo(n - 1) \cup
         {Append(f, e) : f \in {g \in FaultFeedsUpTo(n - 1) : Len(g) = n - 1}, e \in FaultEvents}

FaultFeeds == FaultFeedsUpTo(MaxFaultEvents)

NextFault ==
    \/ ResolveTarget
    \/ FetchFeed(FaultFeeds)
    \/ ProcessEvent
    \/ Finish
    \/ MainCheckShows

SpecFault == Init /\ [][NextFault]_vars

\* The events whose processing ends in a catch block of the loop body.
ThrowsInBody(e) ==
    /\ e.type = "VEVENT"
    /\ \/ e.rrule # <<>> /\ e.rrule[1].bad
       \/ e.rrule = <<>> /\ e.start # <<>> /\ ~IsValidDate(e.start[1])

RemoveAt(f, i) == SubSeq(f, 1, i - 1) \o SubSeq(f, i + 1, Len(f))

\* The Shows fetchShows returns for a feed, with the window of this run.
ScheduleOf(events) ==
    StripShows(SortShows(RunLoop([shows |-> <<>>, seen |-> {}, error |-> FALSE], events,
                                 targetDate, rruleAfter, rruleBefore, 1).shows))

Returned == pc \in {"done", "exit", "render"}

\* C13: a failure while one event is processed never aborts the
\* resolution: no error reaches the caller, the failing event yields no
\* Show, the returned Shows are those of the same feed without the failing
\* event, and no Show has an Invalid Date as its instant.
C13_FailureContained ==
    /\ pc # "failed"
    /\ \A k \in 1..Len(shows) : IsValidDate(shows[k]._sort)
    /\ Returned =>
           \A i \in 1..Len(data) :
               ThrowsInBody(data[i]) =>
                   /\ result.shows = ScheduleOf(RemoveAt(data, i))
                   /\ \A k \in 1..Len(shows) : shows[k].ev # i

\* C13 witness: the failing event is the second of three; the event
\* before it and the event after it each gave a Show.
C13_Witness ==
    /\ pc = "done"
    /\ Len(data) = 3
    /\ ThrowsInBody(data[2])
    /\ Len(shows) = 2
    /\ \E k \in 1..2 : shows[k].ev = 1
    /\ \E k \in 1..2 : shows[k].ev = 3

----------------------------------------------------------------------------
(* Claims about the empty schedule, names and override precedence.         *)

\* No occurrence, start or override start of the event is on the date.
NothingOn(e, key) ==
    /\ OnDate(e, key) = {}
    /\ \A k \in 1..Len(e.recurrences) :
           e.recurrences[k].start = <<>> \/ toETDateString(e.recurrences[k].start[1]) # key

\* C14: when no event of the feed has anything on the target date,
\* fetchShows does not throw; it returns the empty Show sequence together
\* with the description of the date, and main, which finds the sequence
\* empty, exits instead of going on to render (it renders only a schedule
\* that has a Show).
C14_EmptySchedule ==
    /\ pc # "failed"
    /\ (Returned /\ \A i \in 1..Len(data) : NothingOn(data[i], targetDate)) =>
           /\ result.shows = <<>>
           /\ result.info = DateInfo(WeekdayOfDays(DayNumber(targetDate)), targetDate)
           /\ pc # "render"
    /\ pc = "exit" => result.shows = <<>>
    /\ pc = "render" => result.shows # <<>>

\* C14 witness: two events with occurrences on the other date only; main
\* has exited.
C14_Witness ==
    /\ pc = "exit"
    /\ Len(data) = 2
    /\ \A i \in 1..2 :
           /\ IsPlain(data[i])
           /\ OccurrencesOf(data[i]) # {}
           /\ NothingOn(data[i], targetDate)

\* The name model: one one-off event at 10:00 on date A whose summary is
\* any string of up to MaxLen characters of CleanAlphabet, or a restream.
MaxLen == 3

CleanAlphabet == {"(note)", "(vs16)", " ", "\t", "7", "#", "D"}

RECURSIVE SummariesUpTo(_)
SummariesUpTo(n) ==
    IF n = 0 THEN {<<>>}
    ELSE SummariesUpTo(n - 1) \cup
         {Append(t, c) : t \in {u \in SummariesUpTo(n - 1) : Len(u) = n - 1}, c \in CleanAlphabet}

Summaries ==
    SummariesUpTo(MaxLen) \cup {sRestream, <<"(note)">> \o RestreamWord \o <<" ">>}

CleanFeeds ==
    {<<[type |-> "VEVENT", summary |-> t, start |-> <<tA10>>, rrule |-> <<>>,
        recurrences |-> <<>>, exdate |-> {}]>> : t \in Summaries}

NextClean ==
    \/ ResolveTarget
    \/ FetchFeed(CleanFeeds)
    \/ ProcessEvent
    \/ Finish
    \/ MainCheckShows

SpecClean == Init /\ [][NextClean]_vars

IsCleanName(n) ==
    /\ n # <<>>
    /\ Head(n) \notin Emoji \cup EmojiComponent \cup WhiteSpace
    /\ n[Len(n)] \notin WhiteSpace
    /\ cleanSummary(n) = n

\* C15: every Show name is non-empty, begins with no emoji, emoji
\* component or whitespace, ends with no whitespace and is left unchanged
\* by cleanSummary; cleanSummary applied twice to any summary gives what
\* it gives applied once; and an event on the target date yields a Show
\* exactly when its summary cleans to a non-empty name.
C15_CleanNames ==
    /\ \A k \in 1..Len(shows) : IsCleanName(shows[k].name)
    /\ \A i \in 1..Len(data) :
           /\ cleanSummary(cleanSummary(data[i].summary)) = cleanSummary(data[i].summary)
           /\ (Returned /\ targetDate = DateA) =>
                  IF cleanSummary(data[i].summary) = <<>>
                  THEN result.shows = <<>>
                  ELSE result.shows = <<[time |-> "10:00  AM/ET",
                                         name |-> cleanSummary(data[i].summary)]>>

\* C15 witness: a summary with emoji and whitespace on both sides of a
\* letter gave a Show named by the letter alone, and a summary of emoji
\* and whitespace only would have given none.
C15_Witness ==
    /\ pc = "done"
    /\ data[1].summary = <<"(note)", "D", " ">>
    /\ result.shows = <<[time |-> "10:00  AM/ET", name |-> <<"D">>]>>
    /\ cleanSummary(<<"(note)", "(vs16)", " ">>) = <<>>

\* The overrides of e with the given key (at most one).
KeyedBy(e, key) == {k \in 1..Len(e.recurrences) : e.recurrences[k].key = key}

\* What an occurrence a of event e looks like under override o: the
\* override's start and summary where it carries them, else a's own
\* instant and the event's summary.
StartUnder(o, a) == IF o.start # <<>> THEN o.start[1] ELSE a
NameUnder(e, o) == cleanSummary(IF o.summary # <<>> THEN o.summary ELSE e.summary)

ShownAs(k, t, name) == shows[k]._sort = t /\ shows[k].name = name

\* C16: a Show made from occurrence a of a recurring event is the
\* occurrence under the override keyed by the target date key if there is
\* one, whether or not another override is keyed by a's instant; else
\* under the override keyed by a's instant; else a itself with the event's
\* summary.  An override replaces only the fields it carries.  And when
\* both overrides exist, the occurrence under the date-keyed one is shown
\* if it is on the target date, has a name and the event has no exclusion.
C16_OverridePrecedence ==
    /\ \A k \in 1..Len(shows) :
           shows[k].via = "rrule" =>
               IF KeyedBy(data[shows[k].ev], targetDate) # {}
               THEN \A d \in KeyedBy(data[shows[k].ev], targetDate) :
                        ShownAs(k, StartUnder(data[shows[k].ev].recurrences[d], shows[k].occ),
                                NameUnder(data[shows[k].ev], data[shows[k].ev].recurrences[d]))
               ELSE IF KeyedBy(data[shows[k].ev], toISOString(shows[k].occ)) # {}
               THEN \A o \in KeyedBy(data[shows[k].ev], toISOString(shows[k].occ)) :
                        ShownAs(k, StartUnder(data[shows[k].ev].recurrences[o], shows[k].occ),
                                NameUnder(data[shows[k].ev], data[shows[k].ev].recurrences[o]))
               ELSE ShownAs(k, shows[k].occ, cleanSummary(data[shows[k].ev].summary))
    /\ Returned =>
           \A i \in 1..Len(data) :
               (IsRecurring(data[i]) /\ ~Excluded(data[i].exdate, targetDate)) =>
                   \A a \in data[i].rrule[1].occs : \A d \in KeyedBy(data[i], targetDate) :
                       (/\ InWindow(a)
                        /\ KeyedBy(data[i], toISOString(a)) # {}
                        /\ toETDateString(StartUnder(data[i].recurrences[d], a)) = targetDate
                        /\ NameUnder(data[i], data[i].recurrences[d]) # <<>>) =>
                           HasShowAt(StartUnder(data[i].recurrences[d], a),
                                     NameUnder(data[i], data[i].recurrences[d]))

\* C16 witness: the occurrence at 10:00 on date A has an override keyed by
\* the date, with a summary and no start, and one keyed by its instant,
\* with a start and no summary: the Show keeps 10:00 and bears the
\* date-keyed override's name, and nothing is shown under the event's name
\* at 10:00.
C16_Witness ==
    /\ pc = "done"
    /\ targetDate = DateA
    /\ Len(data) = 1
    /\ IsRecurring(data[1])
    /\ tA10 \in data[1].rrule[1].occs
    /\ \E d \in KeyedBy(data[1], DateA) :
           data[1].recurrences[d].summary = sOther /\ data[1].recurrences[d].start = <<>>
    /\ \E o \in KeyedBy(data[1], toISOString(tA10)) :
           data[1].recurrences[o].summary = <<>> /\ data[1].recurrences[o].start = <<tA14>>
    /\ HasShowAt(tA10, cleanSummary(sOther))
    /\ ~HasShowAt(tA10, cleanSummary(data[1].summary))

----------------------------------------------------------------------------
(* The Slack bot and the generator processes.  The bot handles a message,  *)
(* acknowledges a schedule request and starts a generator process with     *)
(* execFile; launchd starts one more every morning.  The processes run     *)
(* side by side and share the output directory.  An image or a PSD is      *)
(* named by the run whose schedule it was built from.                      *)

Digits == <<"0", "1", "2", "3", "4", "5", "6", "7", "8", "9">>

IsDigit(c) == \E i \in 1..Len(Digits) : Digits[i] = c

DigitValue(c) == (CHOOSE i \in 1..Len(Digits) : Digits[i] = c) - 1

\* /^\d{4}-\d{2}-\d{2}$/.test(text)
DATE_RE(text) ==
    /\ Len(text) = 10
    /\ \A i \in {1, 2, 3, 4, 6, 7, 9, 10} : IsDigit(text[i])
    /\ text[5] = "-"
    /\ text[8] = "-"

\* The three number fields of a string that matches DATE_RE.
DateKeyOf(text) ==
    <<1000 * DigitValue(text[1]) + 100 * DigitValue(text[2])
          + 10 * DigitValue(text[3]) + DigitValue(text[4]),
      10 * DigitValue(text[6]) + DigitValue(text[7]),
      10 * DigitValue(text[9]) + DigitValue(text[10])>>

\* String.prototype.toLowerCase
ToLowerCase(text) == [i \in 1..Len(text) |-> ToLower(text[i])]

RECURSIVE Join(_)
\* The string of a sequence of characters.
Join(text) == IF text = <<>> THEN "" ELSE Head(text) \o Join(Tail(text))

\* The DAYS of the bot (line 228).
BotDAYS == <<"sunday", "monday", "tuesday", "wednesday", "thursday", "friday", "saturday">>

\* The token fetchShows sees in a string handed to the generator.
ArgToken(text) ==
    IF DATE_RE(text) THEN <<"date", DateKeyOf(text)>> ELSE <<"text", Join(text)>>

\* Lines 254-256: the UTC date of the same local time tomorrow.
TomorrowKey(iso) == <<iso[1], iso[2], iso[3]>>

Tomorrow(zone, clock) == <<"date", TomorrowKey(toISOString(setDatePlus(zone, clock, 1)))>>

\* Lines 250-261: dateArg of the handler; <<>> is null, <<token>> a string.
BotDateArg(text, lower, zone, clock) ==
    IF lower = "today" THEN <<<<"text", "">>>>
    ELSE IF lower = "tomorrow" THEN <<Tomorrow(zone, clock)>>
    ELSE IF \E i \in 1..Len(BotDAYS) : BotDAYS[i] = lower THEN <<ArgToken(text)>>
    ELSE IF DATE_RE(text) THEN <<ArgToken(text)>>
    ELSE <<>>

\* Lines 267-268: the empty string is not handed on.
Argv2(token) == IF IsFalsy(token) THEN <<>> ELSE token

\* Lines 263-270: no request, or the acknowledgement and execFile.
Dispatch(rec, botArg) ==
    IF botArg = <<>> THEN rec
    ELSE [rec EXCEPT !.acked = TRUE, !.arg = Argv2(botArg[1]), !.pc = "spawned"]

\* Lines 239-270.
Handle(rec, fromBot, text, lower, zone, clock) ==
    IF fromBot THEN rec
    ELSE IF lower \in {"help", "commands"} THEN [rec EXCEPT !.reply = "help"]
    ELSE Dispatch(rec, BotDateArg(text, lower, zone, clock))

BotTexts ==
    {<<"t", "o", "d", "a", "y">>,
     <<"T", "o", "m", "o", "r", "r", "o", "w", " ">>,
     <<"s", "a", "t", "u", "r", "d", "a", "y">>,
     <<"S", "a", "t", "u", "r", "d", "a", "y">>,
     <<"2", "0", "2", "6", "-", "1", "3", "-", "0", "1">>,
     <<"h", "e", "l", "p">>,
     <<"h", "i">>}

BotMessages ==
    {[text |-> t, fromBot |-> FALSE] : t \in BotTexts}
        \cup {[text |-> <<"t", "o", "d", "a", "y">>, fromBot |-> TRUE]}

\* The message handler of the bot (lines 238-278) up to execFile.
BotMessage(r) ==
    /\ run[r].pc = "idle"
    /\ \E m \in BotMessages :
           run' = [run EXCEPT ![r] = Handle(@, m.fromBot, Trim(m.text),
                                            Join(ToLowerCase(Trim(m.text))), serverTZ, now)]
    /\ UNCHANGED <<tmpPsd, png>>
    /\ UNCHANGED fetchVars

\* install.sh, lines 30-52: launchd runs node generate.js every morning,
\* without an argument.
CronStart(r) ==
    /\ run[r].pc = "idle"
    /\ run' = [run EXCEPT ![r] = [@ EXCEPT !.cron = TRUE, !.pc = "spawned"]]
    /\ UNCHANGED <<tmpPsd, png>>
    /\ UNCHANGED fetchVars

\* generate.js, line 341: main().catch(e => console.error(e)) logs what main
\* threw; the process then ends with exit status 0.
Caught(rec, kind) == [rec EXCEPT !.pc = "exited", !.failure = kind, !.exit = 0]

\* generate.js, lines 108-118, with fetchShows (calendar.js, lines 80-102
\* and 211): ICAL_URL missing, token rejected, feed not fetched, window
\* not computable, no show (process.exit(1)), or a schedule to render.
FetchOutcome(rec, env, feed, resolved, zone) ==
    IF env = "noconfig" THEN Caught(rec, "config")
    ELSE IF resolved = <<>> THEN Caught(rec, "date")
    ELSE IF feed = "fails" THEN Caught(rec, "fetch")
    ELSE IF ~IsValidDate(WindowStart(resolved[1])) THEN Caught(rec, "range")
    ELSE IF feed = "empty" THEN [rec EXCEPT !.pc = "exited", !.failure = "noshows", !.exit = 1]
    ELSE [rec EXCEPT !.pc = "render", !.day = DescribeTarget(resolved[1], zone).day]

GenFetch(r) ==
    /\ run[r].pc = "spawned"
    /\ \E env \in {"ok", "noconfig"}, feed \in {"fails", "empty", "shows"} :
           run' = [run EXCEPT ![r] = FetchOutcome(@, env, feed,
                                                 ResolveTargetDate(@.arg, serverTZ, now), serverTZ)]
    /\ UNCHANGED <<tmpPsd, png>>
    /\ UNCHANGED fetchVars

\* generate.js, lines 279-281: the modified PSD goes to the one path
\* output/_modified.psd.
GenWritePsd(r) ==
    /\ run[r].pc = "render"
    /\ tmpPsd' = r
    /\ run' = [run EXCEPT ![r].pc = "written"]
    /\ UNCHANGED png
    /\ UNCHANGED fetchVars

\* generate.js, lines 297-298 and 46-59: Photopea opens what the path holds
\* when it is read; reading a missing file ends the process with an
\* uncaught stream error.
GenOpenPsd(r) ==
    /\ run[r].pc = "written"
    /\ run' = [run EXCEPT ![r] =
                   IF tmpPsd = 0
                   THEN [@ EXCEPT !.pc = "exited", !.failure = "enoent", !.exit = 1]
                   ELSE [@ EXCEPT !.pc = "opened", !.doc = tmpPsd]]
    /\ UNCHANGED <<tmpPsd, png>>
    /\ UNCHANGED fetchVars

\* generate.js, lines 302-322: the export gives a PNG, written to
\* output/TEST_<day>.png, or nothing: then the PSD is unlinked and main
\* throws.
GenExport(r) ==
    /\ run[r].pc = "opened"
    /\ \E exported \in BOOLEAN :
           IF exported
           THEN /\ png' = [png EXCEPT ![run[r].day] = run[r].doc]
                /\ run' = [run EXCEPT ![r].pc = "exported"]
                /\ UNCHANGED tmpPsd
           ELSE /\ tmpPsd' = 0
                /\ run' = [run EXCEPT ![r] = Caught(@, "export")]
                /\ UNCHANGED png
    /\ UNCHANGED fetchVars

\* generate.js, lines 324-326: fs.unlinkSync(tmpPath) throws when the file
\* is gone.
GenCleanup(r) ==
    /\ run[r].pc = "exported"
    /\ tmpPsd' = 0
    /\ run' = [run EXCEPT ![r] = IF tmpPsd = 0 THEN Caught(@, "enoent")
                                 ELSE [@ EXCEPT !.pc = "cleaned"]]
    /\ UNCHANGED png
    /\ UNCHANGED fetchVars

\* generate.js, lines 329-339: with the Slack variables set, the file at
\* outPath is uploaded as it is then; main returns.
GenPost(r) ==
    /\ run[r].pc = "cleaned"
    /\ \E channel \in BOOLEAN :
           run' = [run EXCEPT ![r] = [@ EXCEPT !.pc = "exited", !.exit = 0,
                                               !.posted = IF channel THEN png[run[r].day]
                                                          ELSE 0]]
    /\ UNCHANGED <<tmpPsd, png>>
    /\ UNCHANGED fetchVars

\* Line 270: execFile kills a process that runs longer than the timeout.
GenTimeout(r) ==
    /\ ~run[r].cron
    /\ run[r].pc \in {"spawned", "render", "written", "opened", "exported", "cleaned"}
    /\ run' = [run EXCEPT ![r] = [@ EXCEPT !.pc = "exited", !.failure = "killed", !.exit = 1]]
    /\ UNCHANGED <<tmpPsd, png>>
    /\ UNCHANGED fetchVars

\* Lines 270-277: the callback of execFile replies only when err is set,
\* that is for a non-zero exit status or a kill.
BotCallback(r) ==
    /\ run[r].pc = "exited"
    /\ run' = [run EXCEPT ![r] =
                   [@ EXCEPT !.pc = "finished",
                             !.reply = IF ~run[r].cron /\ run[r].exit # 0 THEN "error" ELSE @]]
    /\ UNCHANGED <<tmpPsd, png>>
    /\ UNCHANGED fetchVars

InitBot ==
    /\ dateArg = <<>>
    /\ now = tA10
    /\ serverTZ = TZ
    /\ pc = "off"
    /\ targetDate = <<>>
    /\ data = <<>>
    /\ rruleAfter = 0
    /\ rruleBefore = 0
    /\ idx = 0
    /\ shows = <<>>
    /\ seen = {}
    /\ pushed = <<>>
    /\ fetched = FALSE
    /\ result = <<>>
    /\ NoRuns

\* A step of run r or of the bot for it.
RunStep(r) ==
    \/ BotMessage(r)
    \/ CronStart(r)
    \/ GenFetch(r)
    \/ GenWritePsd(r)
    \/ GenOpenPsd(r)
    \/ GenExport(r)
    \/ GenCleanup(r)
    \/ GenPost(r)
    \/ GenTimeout(r)
    \/ BotCallback(r)

NextBot == \E r \in Runs : RunStep(r)

SpecBot == InitBot /\ [][NextBot]_vars

\* One run alone.  The event loop of the bot and the operating system see
\* to it that a step that stays possible is taken in the end.
NextOne == RunStep(1)

SpecOneFair == InitBot /\ [][NextOne]_vars /\ WF_vars(NextOne)

\* C17 (as stated): no request the bot acknowledged ends in the Day
\* Resolver's invalid-date failure.
C17_Original ==
    \A r \in Runs : run[r].acked => run[r].failure # "date"

\* C18 (as stated): after the acknowledgement the requester gets, in the
\* end, the image or an error reply.
C18_Original ==
    run[1].acked ~> (run[1].posted # 0 \/ run[1].reply = "error")

\* C19 (as stated): runs do not interfere: each run opens, exports and
\* posts the image of its own schedule and finds its PSD where it put it.
C19_Original ==
    \A r \in Runs :
        /\ run[r].doc \in {0, r}
        /\ run[r].posted \in {0, r}
        /\ run[r].failure # "enoent"

====
